---------------------------- MODULE Spec2Model ----------------------------
(***************************************************************************)
(* Atheer Test Lab (src/assets/app.js): the seeded transaction simulator,  *)
(* the offline token pool with its risk check, and the bounded run         *)
(* history, as a state machine.                                            *)
(*                                                                         *)
(* Numbers.  TLC's integers are 32-bit signed, so a JavaScript 32-bit word *)
(* is kept as a pair <<hi, lo>> of 16-bit halves (value hi*65536 + lo),    *)
(* and a latency in milliseconds as a fixed-point number with 32 binary    *)
(* fraction digits, <<w, fh, fl>> with 16-bit fh and fl, value             *)
(* w + (fh*65536 + fl) / 2^32.  With the integer scenario fields and the   *)
(* power-of-two bandwidths the model enumerates, every intermediate value  *)
(* of simulateRun is a multiple of 2^-32 below 2^15, which a double holds  *)
(* exactly: the fixed-point value is the double the code computes.         *)
(*                                                                         *)
(* Layout.  A value that a computation uses more than once is passed on as *)
(* an operator argument (TLC computes an argument once), so a function of  *)
(* the code may be spread over a few staged operators.                     *)
(***************************************************************************)
EXTENDS Integers, Sequences, FiniteSets

(***************************************************************************)
(* 32-bit words                                                            *)
(***************************************************************************)
H16 == 65536

\* x ^ y on two bits, then on 4-bit digits (a table TLC builds once)
XorNib ==
  [a \in 0..15 |-> [b \in 0..15 |->
      (((a % 2) + (b % 2)) % 2)
    + 2 * ((((a \div 2) % 2) + ((b \div 2) % 2)) % 2)
    + 4 * ((((a \div 4) % 2) + ((b \div 4) % 2)) % 2)
    + 8 * ((((a \div 8) % 2) + ((b \div 8) % 2)) % 2)]]

Xor16(a, b) ==
    XorNib[a % 16][b % 16]
  + 16 * XorNib[(a \div 16) % 16][(b \div 16) % 16]
  + 256 * XorNib[(a \div 256) % 16][(b \div 256) % 16]
  + 4096 * XorNib[(a \div 4096) % 16][(b \div 4096) % 16]

\* a | b = (a + b + (a ^ b)) / 2
Or16(a, b) == (a + b + Xor16(a, b)) \div 2

WXor(x, y) == <<Xor16(x[1], y[1]), Xor16(x[2], y[2])>>

\* c | x for a constant c below 65536
WOrLow(c, x) == <<x[1], Or16(c, x[2])>>

\* x >>> k, 0 < k < 16
RECURSIVE Pow2(_)
Pow2(k) == IF k = 0 THEN 1 ELSE 2 * Pow2(k - 1)
WShr(x, k) ==
  <<x[1] \div Pow2(k),
    ((x[1] % Pow2(k)) * Pow2(16 - k)) + (x[2] \div Pow2(k))>>

\* (x + y) mod 2^32
WAddLo(x, y, lo) == <<(x[1] + y[1] + (lo \div H16)) % H16, lo % H16>>
WAdd(x, y) == WAddLo(x, y, x[2] + y[2])

\* (a * b) mod 2^16 and (a * b) div 2^16 for 16-bit a, b, by the bytes of b
MulLo16(a, b) ==
  ((a * (b % 256)) + (((a * (b \div 256)) % 256) * 256)) % H16
MulHiParts(p0, p1) == ((p0 + ((p1 % 256) * 256)) \div H16) + (p1 \div 256)
MulHi16(a, b) == MulHiParts(a * (b % 256), a * (b \div 256))

\* Math.imul(x, y): the low 32 bits of the product
Imul(x, y) ==
  <<(MulHi16(x[2], y[2]) + MulLo16(x[1], y[2]) + MulLo16(x[2], y[1])) % H16,
    MulLo16(x[2], y[2])>>

\* seed >>> 0 for a seed in 1..2147483647
ToWord(n) == <<n \div H16, n % H16>>

(***************************************************************************)
(* seededRand (mulberry32).  The closure's t is a double that grows by     *)
(* 0x6D2B79F5 a call; every use of it is a 32-bit bit operation, which     *)
(* reads t mod 2^32, and t stays below 2^53 for the 1.2 million draws of   *)
(* the longest run: the state kept here is t mod 2^32.                     *)
(***************************************************************************)
Golden == <<27947, 31221>>        \* 0x6D2B79F5

RandStep(t) == WAdd(t, Golden)

\* the numerator x of the value x / 4294967296 a call returns, from the
\* advanced state t
RandMix1(t) == Imul(WXor(t, WShr(t, 15)), WOrLow(1, t))
RandMix2(x) == WXor(x, WAdd(x, Imul(WXor(x, WShr(x, 7)), WOrLow(61, x))))
RandMix3(x) == WXor(x, WShr(x, 14))
RandOut(t) == RandMix3(RandMix2(RandMix1(t)))

(***************************************************************************)
(* Text.  A string is the sequence of its character codes; the option      *)
(* values of the two <select> fields are kept as TLA+ strings and spelled  *)
(* out by Chars.                                                           *)
(***************************************************************************)
Chars(s) ==
  CASE s = "private_apn" ->
         <<112, 114, 105, 118, 97, 116, 101, 95, 97, 112, 110>>
    [] s = "public_internet" ->
         <<112, 117, 98, 108, 105, 99, 95, 105, 110, 116, 101, 114, 110,
           101, 116>>
    [] s = "tap_to_pay" -> <<116, 97, 112, 95, 116, 111, 95, 112, 97, 121>>
    [] s = "provisioning" ->
         <<112, 114, 111, 118, 105, 115, 105, 111, 110, 105, 110, 103>>
    [] s = "other" -> <<111, 116, 104, 101, 114>>

\* the decimal text of an integer, as JSON.stringify writes it
RECURSIVE Dec(_)
Dec(n) ==
  IF n < 0 THEN <<45>> \o Dec(0 - n)
  ELSE IF n < 10 THEN <<48 + n>>
  ELSE Dec(n \div 10) \o <<48 + (n % 10)>>

\* Number(text) for the text of an integer, with or without a minus sign
RECURSIVE ParseNat(_, _)
ParseNat(txt, acc) ==
  IF txt = <<>> THEN acc ELSE ParseNat(Tail(txt), (10 * acc) + (Head(txt) - 48))
Number(txt) ==
  IF Head(txt) = 45 THEN 0 - ParseNat(Tail(txt), 0) ELSE ParseNat(txt, 0)

\* Number(value || dflt): an empty field is falsy, any other text is not
NumberOr(txt, dflt) == IF txt = <<>> THEN dflt ELSE Number(txt)

Max(a, b) == IF a >= b THEN a ELSE b
Min(a, b) == IF a <= b THEN a ELSE b
clamp(n, lo, hi) == Max(lo, Min(hi, n))

\* JSON.stringify(scenario) before the id is added: the keys in the order
\* the object literal creates them
JsonScenario(sc) ==
     <<123, 34, 110, 101, 116, 84, 121, 112, 101, 34, 58, 34>>  \* {"netType":"
  \o Chars(sc.netType)
  \o <<34, 44, 34, 108, 97, 116, 101, 110, 99, 121, 34, 58>>    \* ","latency":
  \o Dec(sc.latency)
  \o <<44, 34, 106, 105, 116, 116, 101, 114, 34, 58>>           \* ,"jitter":
  \o Dec(sc.jitter)
  \o <<44, 34, 108, 111, 115, 115, 34, 58>>                     \* ,"loss":
  \o Dec(sc.loss)
  \o <<44, 34, 98, 119, 34, 58>>                                \* ,"bw":
  \o Dec(sc.bw)
  \o <<44, 34, 109, 105, 120, 34, 58, 34>>                      \* ,"mix":"
  \o Chars(sc.mix)
  \o <<34, 44, 34, 110, 34, 58>>                                \* ","n":
  \o Dec(sc.n)
  \o <<44, 34, 115, 101, 101, 100, 34, 58>>                     \* ,"seed":
  \o Dec(sc.seed)
  \o <<125>>                                                    \* }

\* (h >>> 0).toString(16).toUpperCase().padStart(8, "0")
HexDigit(d) == IF d < 10 THEN 48 + d ELSE 55 + d
Hex4(h) ==
  <<HexDigit(h \div 4096), HexDigit((h \div 256) % 16),
    HexDigit((h \div 16) % 16), HexDigit(h % 16)>>

FnvBasis == <<33052, 40389>>      \* 2166136261
FnvPrime == <<256, 403>>          \* 16777619

\* one turn of hashId's loop: h ^= c; h = Math.imul(h, 16777619)
FnvStep(h, c) == Imul(<<h[1], Xor16(h[2], c)>>, FnvPrime)

\* the loop over the characters lo..hi of txt, entered with h.  The range
\* is halved, and the left half is computed (FnvThen's test on it) before
\* the right half is entered, so that the evaluation stays shallow.
RECURSIVE FnvFold(_, _, _, _)
FnvThen(txt, left, lo, hi) ==
  IF left[1] >= 0 THEN FnvFold(txt, left, lo, hi) ELSE left
FnvFold(txt, h, lo, hi) ==
  IF lo > hi THEN h
  ELSE IF lo = hi THEN FnvStep(h, txt[lo])
  ELSE FnvThen(txt, FnvFold(txt, h, lo, (lo + hi) \div 2),
               ((lo + hi) \div 2) + 1, hi)

IdText(h) == <<83, 67, 78, 45>> \o Hex4(h[1]) \o Hex4(h[2])     \* "SCN-"
hashId(input) == IdText(FnvFold(input, FnvBasis, 1, Len(input)))

(***************************************************************************)
(* getScenario: the form's raw values, the defaults of the empty fields,   *)
(* the clamps, then the id of the clamped record.                          *)
(***************************************************************************)
LatencyMax == 5000
JitterMax == 2000
LossMax == 30
BwMin == 64
BwMax == 1000000
NMin == 10
NMax == 200000
NDefault == 1000
SeedDefault == 42
SeedMax == 2147483647

Clamped(raw) ==
  [netType |-> raw.netType,
   latency |-> clamp(NumberOr(raw.latency, 0), 0, LatencyMax),
   jitter  |-> clamp(NumberOr(raw.jitter, 0), 0, JitterMax),
   loss    |-> clamp(NumberOr(raw.loss, 0), 0, LossMax),
   bw      |-> clamp(NumberOr(raw.bw, 0), BwMin, BwMax),
   mix     |-> raw.mix,
   n       |-> clamp(NumberOr(raw.n, NDefault), NMin, NMax),
   seed    |-> clamp(NumberOr(raw.seed, SeedDefault), 1, SeedMax)]

\* the object as it is read from the form, before the clamps
Parsed(raw) ==
  [netType |-> raw.netType,
   latency |-> NumberOr(raw.latency, 0),
   jitter  |-> NumberOr(raw.jitter, 0),
   loss    |-> NumberOr(raw.loss, 0),
   bw      |-> NumberOr(raw.bw, 0),
   mix     |-> raw.mix,
   n       |-> NumberOr(raw.n, NDefault),
   seed    |-> NumberOr(raw.seed, SeedDefault)]

\* c with the id of the object p
IdOf(c, p) ==
  [netType |-> c.netType, latency |-> c.latency, jitter |-> c.jitter,
   loss |-> c.loss, bw |-> c.bw, mix |-> c.mix, n |-> c.n, seed |-> c.seed,
   id |-> hashId(JsonScenario(p))]

\* getScenario with the id taken before the clamps
getScenarioIdFirst(raw) == IdOf(Clamped(raw), Parsed(raw))

\* getScenario with the id taken before the last clamp, the seed's
getScenarioIdBeforeSeed(raw) ==
  IdOf(Clamped(raw), [Clamped(raw) EXCEPT !.seed = Parsed(raw).seed])

WithId(c) ==
  [netType |-> c.netType, latency |-> c.latency, jitter |-> c.jitter,
   loss |-> c.loss, bw |-> c.bw, mix |-> c.mix, n |-> c.n, seed |-> c.seed,
   id |-> hashId(JsonScenario(c))]

getScenario(raw) == WithId(Clamped(raw))

(***************************************************************************)
(* Fixed-point milliseconds <<w, fh, fl>>: w + (fh * 65536 + fl) / 2^32.   *)
(***************************************************************************)
FxInt(k) == <<k, 0, 0>>

FxCarry(w, mid, lo) == <<w + (mid \div H16), mid % H16, lo % H16>>
FxAddLo(a, b, lo) == FxCarry(a[1] + b[1], a[2] + b[2] + (lo \div H16), lo)
FxAdd(a, b) == FxAddLo(a, b, a[3] + b[3])

FxNeg(a) ==
  IF a[2] = 0 /\ a[3] = 0 THEN <<0 - a[1], 0, 0>>
  ELSE <<0 - a[1] - 1,
         (H16 - a[2] - (IF a[3] > 0 THEN 1 ELSE 0)) % H16,
         (H16 - a[3]) % H16>>

FxAbs(a) == IF a[1] < 0 THEN FxNeg(a) ELSE a

FxLess(a, b) ==
  \/ a[1] < b[1]
  \/ a[1] = b[1] /\ a[2] < b[2]
  \/ a[1] = b[1] /\ a[2] = b[2] /\ a[3] < b[3]

\* c * (x / 2^32) for an integer 0 <= c <= 4000 and a draw's numerator x
FxMulParts(hi, lo) == FxCarry(0, hi + (lo \div H16), lo)
FxMulDraw(c, x) == FxMulParts(c * x[1], c * x[2])

\* r / q, r < q <= 8000000, to 32 binary places by long division in base
\* 256: a step gives <<digit, remainder>>, two steps a 16-bit digit
DivStep(r, q) == <<(r * 256) \div q, (r * 256) % q>>
Div16Low(d1, s2) == <<(d1 * 256) + s2[1], s2[2]>>
Div16High(s1, q) == Div16Low(s1[1], DivStep(s1[2], q))
Div16(r, q) == Div16High(DivStep(r, q), q)
Frac32Low(hi, lo) == [hi |-> hi, lo |-> lo[1], exact |-> lo[2] = 0]
Frac32High(hi, q) == Frac32Low(hi[1], Div16(hi[2], q))
Frac32(r, q) == Frac32High(Div16(r, q), q)

\* p / q as a fixed-point number (exact when q divides p * 2^32, as it does
\* for the bandwidths the model enumerates, which are powers of two)
FxOfFrac(w, f) == <<w, f.hi, f.lo>>
FxRatio(p, q) == FxOfFrac(p \div q, Frac32(p % q, q))

\* rand() < p / q, for the numerator x of the value rand() returned.  The
\* thresholds of the code (loss/100, 0.12, 0.008, stress*0.35) are doubles
\* within 2^-52 of p/q; where p/q is no multiple of 2^-32 no x / 2^32 lies
\* between the two, and the forms the model enumerates keep it so or make
\* the threshold 0.
BelowFrac(x, f) ==
  \/ x[1] < f.hi
  \/ x[1] = f.hi /\ x[2] < f.lo
  \/ x[1] = f.hi /\ x[2] = f.lo /\ ~f.exact
DrawBelow(x, p, q) == IF p >= q THEN TRUE ELSE BelowFrac(x, Frac32(p, q))

(***************************************************************************)
(* The token pool and riskCheck.                                           *)
(*                                                                         *)
(* Times are milliseconds on the page's clock.  Math.random() is a value   *)
(* r / 2 with r in {0, 1}: a token expires 3 or 3.5 days after its pool    *)
(* was created.  rnd is the sequence of values Math.random() returns for   *)
(* the tokens of one pool.                                                 *)
(***************************************************************************)
TokenCount == 100
PoolLimit == 100
DayMs == 86400000

RandomSeqs ==
  {[k \in 1..TokenCount |-> 0], [k \in 1..TokenCount |-> k % 2]}

TokenId(k) == <<84>> \o Dec(k)                                   \* `T${i+1}`

NewPool(nowT, rnd) ==
  [tokens    |-> [k \in 1..TokenCount |->
                    [id |-> TokenId(k), used |-> FALSE,
                     expiresAt |-> nowT + (3 * DayMs) + (rnd[k] * (DayMs \div 2))]],
   cumulative |-> 0,
   limit      |-> PoolLimit,
   threshold  |-> PoolLimit]

\* state.tokenPools after initTokenPool(scenario)
initTokenPool(pools, id, nowT, rnd) ==
  [x \in DOMAIN pools \cup {id} |->
     IF x = id THEN NewPool(nowT, rnd) ELSE pools[x]]

\* the find's test without its !t.used
ValidIgnoringUsed(tok, nowT) == tok.expiresAt > nowT

\* the find's test without its t.expiresAt > Date.now()
ValidIgnoringExpiry(tok, nowT) == ~tok.used

\* the token pool.tokens.find(...) returns
Valid(tok, nowT) == ~tok.used /\ tok.expiresAt > nowT

\* its index, 0 for undefined: find returns the first element that passes
FirstOf(S) == IF S = {} THEN 0 ELSE CHOOSE k \in S : \A j \in S : k <= j
FindToken(pool, nowT) ==
  FirstOf({k \in 1..Len(pool.tokens) : Valid(pool.tokens[k], nowT)})

OverLimit(pool, amount) == pool.cumulative + amount > pool.limit

\* pool.cumulative = amount for pool.cumulative += amount
ConsumeAssign(pool, k, amount) ==
  [pool EXCEPT !.tokens[k].used = TRUE, !.cumulative = amount]

\* pool.cumulative += amount without token.used = true
ConsumeKeepsToken(pool, k, amount) == [pool EXCEPT !.cumulative = @ + amount]

Consume(pool, k, amount) ==
  [pool EXCEPT !.tokens[k].used = TRUE, !.cumulative = @ + amount]

LogEntry(comp, msg, token) == [comp |-> comp, msg |-> msg, token |-> token]

\* the token marked used before the limit is tested
DecideMarkFirst(ps, id, amount, k) ==
  IF k = 0
  THEN [pools |-> ps, ok |-> FALSE,
        log |-> LogEntry("risk", "Token expired or exhausted", <<>>)]
  ELSE IF OverLimit(ps[id], amount)
  THEN [pools |-> [ps EXCEPT ![id].tokens[k].used = TRUE], ok |-> FALSE,
        log |-> LogEntry("risk", "Cumulative limit exceeded", <<>>)]
  ELSE [pools |-> [ps EXCEPT ![id] = Consume(ps[id], k, amount)],
        ok |-> TRUE,
        log |-> LogEntry("risk", "Token consumed", ps[id].tokens[k].id)]

\* the two tests in the other order: the limit before the token
DecideLimitFirst(ps, id, amount, k) ==
  IF OverLimit(ps[id], amount)
  THEN [pools |-> ps, ok |-> FALSE,
        log |-> LogEntry("risk", "Cumulative limit exceeded", <<>>)]
  ELSE IF k = 0
  THEN [pools |-> ps, ok |-> FALSE,
        log |-> LogEntry("risk", "Token expired or exhausted", <<>>)]
  ELSE [pools |-> [ps EXCEPT ![id] = Consume(ps[id], k, amount)],
        ok |-> TRUE,
        log |-> LogEntry("risk", "Token consumed", ps[id].tokens[k].id)]

\* riskCheck(scenario, amount) at time nowT: the pools it leaves, the value
\* it returns and the entry it logs last.  k is the token found.
Decide(ps, id, amount, k) ==
  IF k = 0
  THEN [pools |-> ps, ok |-> FALSE,
        log |-> LogEntry("risk", "Token expired or exhausted", <<>>)]
  ELSE IF OverLimit(ps[id], amount)
  THEN [pools |-> ps, ok |-> FALSE,
        log |-> LogEntry("risk", "Cumulative limit exceeded", <<>>)]
  ELSE [pools |-> [ps EXCEPT ![id] = Consume(ps[id], k, amount)],
        ok |-> TRUE,
        log |-> LogEntry("risk", "Token consumed", ps[id].tokens[k].id)]

CheckIn(ps, id, amount, nowT) ==
  Decide(ps, id, amount, FindToken(ps[id], nowT))

riskCheck(pools, id, amount, nowT, rnd) ==
  CheckIn(IF id \in DOMAIN pools THEN pools
          ELSE initTokenPool(pools, id, nowT, rnd),
          id, amount, nowT)

(***************************************************************************)
(* One accepted trial of simulateRun: the draws, in the order the code     *)
(* makes them, from the generator state t0.                                *)
(***************************************************************************)
baseProcessing(sc) ==
  IF sc.mix = "tap_to_pay" THEN 85
  ELSE IF sc.mix = "provisioning" THEN 160 ELSE 120

payloadKbits(sc) == IF sc.mix = "provisioning" THEN 48 ELSE 12

\* (payloadKbits / scenario.bw) * 1000 * 8
bwMs(sc) == FxRatio(payloadKbits(sc) * 8000, sc.bw)

\* (rand()*2 - 1) * scenario.jitter, for the numerator x of rand()
JitterOf(sc, x) == FxAdd(FxMulDraw(2 * sc.jitter, x), FxInt(0 - sc.jitter))

\* stress * 0.35 as a fraction: stress is
\* clamp(loss/30 + latency/800 + jitter/400, 0, 1), that is num / 2400
StressNum(sc) == (80 * sc.loss) + (3 * sc.latency) + (6 * sc.jitter)
StressP(sc) == IF StressNum(sc) >= 2400 THEN 7 ELSE 7 * StressNum(sc)
StressQ(sc) == IF StressNum(sc) >= 2400 THEN 20 ELSE 48000

\* base + net + bwMs with the jitter draw x
FirstAttempt(sc, x) ==
  FxAdd(FxAdd(FxInt(baseProcessing(sc)),
              FxAdd(FxInt(sc.latency), JitterOf(sc, x))),
        bwMs(sc))

\* scenario.latency + Math.abs((rand()*2-1)*scenario.jitter) + 40
Penalty(sc, x) == FxAdd(FxInt(sc.latency + 40), FxAbs(JitterOf(sc, x)))

\* 35 + rand()*90
Extra(x) == FxAdd(FxInt(35), FxMulDraw(90, x))

\* the end of the trial: t = Math.max(0, t); s is the generator's state and
\* d the number of draws made
NetDone(drop, err, t, s, d) ==
  [t |-> IF t[1] < 0 THEN FxInt(0) ELSE t, err |-> err, drop |-> drop,
   rand |-> s, draws |-> d]

\* the extra-delay draw made whether or not the stress draw fires
NetStressDrawsAlways(sc, drop, err, t, s5, d) ==
  IF DrawBelow(RandOut(s5), StressP(sc), StressQ(sc))
  THEN NetDone(drop, err, FxAdd(t, Extra(RandOut(RandStep(s5)))),
               RandStep(s5), d + 2)
  ELSE NetDone(drop, err, t, RandStep(s5), d + 2)

\* the stress draw s5 and, if it fires, the extra-delay draw
NetStress(sc, drop, err, t, s5, d) ==
  IF DrawBelow(RandOut(s5), StressP(sc), StressQ(sc))
  THEN NetDone(drop, err, FxAdd(t, Extra(RandOut(RandStep(s5)))),
               RandStep(s5), d + 2)
  ELSE NetDone(drop, err, t, s5, d + 1)

\* the second attempt with err = drop for err = secondFail
NetRetryErrOnDrop(sc, first, secondFail, s4) ==
  NetStress(sc, TRUE, TRUE, FxAdd(first, Penalty(sc, RandOut(s4))),
            RandStep(s4), 4)

\* the second attempt: the retry's jitter draw s4
NetRetry(sc, first, secondFail, s4) ==
  NetStress(sc, TRUE, secondFail, FxAdd(first, Penalty(sc, RandOut(s4))),
            RandStep(s4), 4)

\* the third draw s3: the second attempt's failure, or the baseline fault
NetThird(sc, drop, first, s3) ==
  IF drop
  THEN NetRetry(sc, first, DrawBelow(RandOut(s3), 12, 100), RandStep(s3))
  ELSE NetStress(sc, FALSE, DrawBelow(RandOut(s3), 8, 1000), first,
                 RandStep(s3), 3)

\* the jitter draw s2
NetJitter(sc, drop, s2) ==
  NetThird(sc, drop, FirstAttempt(sc, RandOut(s2)), RandStep(s2))

\* the drop draw s1
NetDrop(sc, s1) ==
  NetJitter(sc, DrawBelow(RandOut(s1), sc.loss, 100), RandStep(s1))

Network(sc, t0) == NetDrop(sc, RandStep(t0))

(***************************************************************************)
(* Statistics.  A quotient of two numbers is kept as the pair it is the    *)
(* quotient of: the double s / n is a function of it.                      *)
(***************************************************************************)
RECURSIVE SumRange(_, _, _)
SumRange(arr, lo, hi) ==
  IF lo > hi THEN FxInt(0)
  ELSE IF lo = hi THEN arr[lo]
  ELSE FxAdd(SumRange(arr, lo, (lo + hi) \div 2),
             SumRange(arr, ((lo + hi) \div 2) + 1, hi))

mean(arr) ==
  IF Len(arr) = 0 THEN [sum |-> FxInt(0), count |-> 1]
  ELSE [sum |-> SumRange(arr, 1, Len(arr)), count |-> Len(arr)]

\* element k (from 1) of arr as it is, without the sort
SortedAtUnsorted(arr, k) == arr[k]

\* element k (from 1) of [...arr].sort((x,y)=>x-y): the value with fewer
\* than k elements below it and at least k elements not above it
SortedAt(arr, k) ==
  arr[CHOOSE j \in 1..Len(arr) :
        /\ Cardinality({m \in 1..Len(arr) : FxLess(arr[m], arr[j])}) < k
        /\ Cardinality({m \in 1..Len(arr) : ~FxLess(arr[j], arr[m])}) >= k]

\* Math.ceil((p/100) * len) - 1; the double product rounds to the exact one
\* for p in {50, 95, 99} and every len up to 200000
PercentileIndex(len, p) == ((p * len) + 99) \div 100 - 1

percentile(arr, p) ==
  IF Len(arr) = 0 THEN FxInt(0)
  ELSE SortedAt(arr, Max(0, Min(Len(arr) - 1, PercentileIndex(Len(arr), p))) + 1)

RECURSIVE Gcd(_, _)
Gcd(a, b) == IF b = 0 THEN a ELSE Gcd(b, a % b)

\* errors / scenario.n, in lowest terms
Lowest(k, n, g) == [num |-> k \div g, den |-> n \div g]
Rate(k, n) == Lowest(k, n, Gcd(k, n))

Metrics(smp, errs, retr, n) ==
  [avg_ms |-> mean(smp),
   p50_ms |-> percentile(smp, 50),
   p95_ms |-> percentile(smp, 95),
   p99_ms |-> percentile(smp, 99),
   error_rate |-> Rate(errs, n),
   retry_rate |-> Rate(retr, n)]

(***************************************************************************)
(* The state.                                                              *)
(*   tokenPools  state.tokenPools: scenario id -> pool                     *)
(*   runs        state.runs                                                *)
(*   stored      localStorage's item "atheer_runs_v2"                      *)
(*   lastLog     the last entry of state.logs (NoLog: the list is empty)   *)
(*   now         Date.now(), from 0 when the page loads                    *)
(*   pc          "idle": no handler runs; "run": the Run click's handler   *)
(*               is in simulateRun's loop                                  *)
(*   scenario, rand, samples, errors, retries, i                           *)
(*               simulateRun's scenario and locals (rand: the closure's t) *)
(*   made        how many records were pushed onto state.runs since it was *)
(*               loaded or cleared, those loaded included (not in the code)*)
(*   nRuns, nTicks  how many Run clicks and clock steps happened (bounds)  *)
(***************************************************************************)
VARIABLES tokenPools, runs, stored, lastLog, now, pc,
          scenario, rand, samples, errors, retries, i,
          made, nRuns, nTicks

vars == <<tokenPools, runs, stored, lastLog, now, pc,
          scenario, rand, samples, errors, retries, i, made, nRuns, nTicks>>

locals == <<scenario, rand, samples, errors, retries, i>>

MaxRuns == 2
MaxTicks == 1
HistoryMax == 20

NoLog == LogEntry("", "", <<>>)
NoItem == [json |-> "null", runs |-> <<>>]
NoScenario == [id |-> <<>>, n |-> 0]
NoPools == [x \in {} |-> x]

\* the raw values of the form's fields
FormA ==
  [netType |-> "public_internet", latency |-> Dec(150), jitter |-> Dec(30),
   loss |-> Dec(5), bw |-> Dec(512), mix |-> "tap_to_pay",
   n |-> Dec(101), seed |-> Dec(42)]
FormB ==
  [netType |-> "private_apn", latency |-> Dec(9000), jitter |-> <<>>,
   loss |-> Dec(30), bw |-> <<>>, mix |-> "provisioning",
   n |-> Dec(3), seed |-> Dec(0)]
Forms == {FormA, FormB}

\* "RUN-" and eight hex digits of Math.random(); nothing reads a run_id
RunIds == {"RUN-1A2B3C4D"}

\* the first cnt elements: arr.slice(0, cnt)
SliceFirst(arr, cnt) == IF Len(arr) <= cnt THEN arr ELSE SubSeq(arr, 1, cnt)

\* the last cnt elements: arr.slice(-cnt)
SliceLast(arr, cnt) ==
  IF Len(arr) <= cnt THEN arr ELSE SubSeq(arr, Len(arr) - cnt + 1, Len(arr))

\* JSON.stringify of the run list and JSON.parse of the item: the records
\* hold strings and finite numbers only, which the text gives back as they
\* were
Stringify(rs) == [json |-> "array", runs |-> rs]
loadRuns(item) == IF item.json = "array" THEN item.runs ELSE <<>>
saveRuns(rs) == Stringify(SliceLast(rs, HistoryMax))

\* the records an earlier session stored: runs of a third scenario against
\* a pool that had no token left
FormOld ==
  [netType |-> "private_apn", latency |-> Dec(20), jitter |-> Dec(5),
   loss |-> Dec(0), bw |-> Dec(1024), mix |-> "other",
   n |-> Dec(10), seed |-> Dec(7)]
Zeros(n) == [k \in 1..n |-> FxInt(0)]
OldRunOf(sc, k) ==
  [run_id |-> "RUN-00000000", started_at |-> k - HistoryMax,
   scenario |-> sc,
   metrics |-> Metrics(Zeros(sc.n), sc.n, 0, sc.n),
   samples_ms |-> Zeros(sc.n), seq |-> k]
OldRuns == [k \in 1..(HistoryMax - 1) |-> OldRunOf(getScenario(FormOld), k)]

StoredAtLoad == {NoItem, Stringify(OldRuns)}

Init ==
  /\ stored \in StoredAtLoad
  /\ runs = loadRuns(stored)
  /\ made = Len(loadRuns(stored))
  /\ tokenPools = NoPools
  /\ lastLog = LogEntry("client", "Atheer Test Lab loaded", <<>>)
  /\ now = 0
  /\ pc = "idle"
  /\ scenario = NoScenario
  /\ rand = <<0, 0>>
  /\ samples = <<>>
  /\ errors = 0
  /\ retries = 0
  /\ i = 0
  /\ nRuns = 0
  /\ nTicks = 0

\* the clock moves while no handler runs
Tick ==
  /\ pc = "idle"
  /\ nTicks < MaxTicks
  /\ now' = now + (3 * DayMs)
  /\ nTicks' = nTicks + 1
  /\ UNCHANGED <<tokenPools, runs, stored, lastLog, pc, locals, made, nRuns>>

\* saveScenarioBtn
SaveScenarioClick ==
  /\ pc = "idle"
  /\ \E raw \in Forms : \E sc \in {getScenario(raw)} :
       lastLog' = LogEntry("client", "Scenario saved (in UI)", <<>>)
  /\ UNCHANGED <<tokenPools, runs, stored, now, pc, locals, made, nRuns, nTicks>>

\* clearLogsBtn
ClearLogsClick ==
  /\ pc = "idle"
  /\ lastLog' = NoLog
  /\ UNCHANGED <<tokenPools, runs, stored, now, pc, locals, made, nRuns, nTicks>>

\* clearRunsBtn that clears the token pools with the runs
ClearRunsAndPools ==
  /\ pc = "idle"
  /\ runs' = <<>>
  /\ stored' = saveRuns(<<>>)
  /\ made' = 0
  /\ tokenPools' = NoPools
  /\ lastLog' = LogEntry("client", "All runs cleared", <<>>)
  /\ UNCHANGED <<now, pc, locals, nRuns, nTicks>>

\* clearRunsBtn, the confirm() answered with yes
ClearRunsClick ==
  /\ pc = "idle"
  /\ runs' = <<>>
  /\ stored' = saveRuns(<<>>)
  /\ made' = 0
  /\ lastLog' = LogEntry("client", "All runs cleared", <<>>)
  /\ UNCHANGED <<tokenPools, now, pc, locals, nRuns, nTicks>>

\* runBtn with the token pools torn down before each run
RunClickFreshPools ==
  /\ pc = "idle"
  /\ nRuns < MaxRuns
  /\ \E raw \in Forms : \E sc \in {getScenario(raw)} :
       /\ scenario' = sc
       /\ rand' = ToWord(sc.seed)
  /\ samples' = <<>>
  /\ errors' = 0
  /\ retries' = 0
  /\ i' = 0
  /\ pc' = "run"
  /\ lastLog' = LogEntry("network", "Applying network profile", <<>>)
  /\ nRuns' = nRuns + 1
  /\ tokenPools' = NoPools
  /\ UNCHANGED <<runs, stored, now, made, nTicks>>

\* runBtn: getScenario, then simulateRun up to its loop
RunClick ==
  /\ pc = "idle"
  /\ nRuns < MaxRuns
  /\ \E raw \in Forms : \E sc \in {getScenario(raw)} :
       /\ scenario' = sc
       /\ rand' = ToWord(sc.seed)
  /\ samples' = <<>>
  /\ errors' = 0
  /\ retries' = 0
  /\ i' = 0
  /\ pc' = "run"
  /\ lastLog' = LogEntry("network", "Applying network profile", <<>>)
  /\ nRuns' = nRuns + 1
  /\ UNCHANGED <<tokenPools, runs, stored, now, made, nTicks>>

\* the values Math.random() may return to initTokenPool: it is called only
\* when the pool is created
RandomFor(pools, id) ==
  IF id \in DOMAIN pools THEN {[k \in 1..TokenCount |-> 0]} ELSE RandomSeqs

\* the rejected turn with a draw made before the check's result is read
RejectedDraws(rc) ==
  /\ errors' = errors + 1
  /\ samples' = Append(samples, FxInt(0))
  /\ lastLog' = rc.log
  /\ rand' = RandStep(rand)
  /\ UNCHANGED retries

\* the rejected turn without its samples.push(0)
RejectedNoSample(rc) ==
  /\ errors' = errors + 1
  /\ lastLog' = rc.log
  /\ UNCHANGED <<samples, retries, rand>>

\* a turn of the loop whose riskCheck returned false
Rejected(rc) ==
  /\ errors' = errors + 1
  /\ samples' = Append(samples, FxInt(0))
  /\ lastLog' = rc.log
  /\ UNCHANGED <<retries, rand>>

\* the accepted turn with a second retries++ where the retry's success is
\* logged
AcceptedRetryTwice(rc, net) ==
  /\ rand' = net.rand
  /\ retries' = IF net.drop
                THEN (IF net.err THEN retries + 1 ELSE retries + 2)
                ELSE retries
  /\ errors' = IF net.err THEN errors + 1 ELSE errors
  /\ lastLog' =
       IF net.err THEN LogEntry("host", "Transaction failed", <<>>)
       ELSE IF net.drop
       THEN LogEntry("network", "Retry succeeded after packet loss", <<>>)
       ELSE rc.log
  /\ samples' = Append(samples, net.t)

\* a turn of the loop whose riskCheck returned true: net is what the draws
\* of the turn gave
Accepted(rc, net) ==
  /\ rand' = net.rand
  /\ retries' = IF net.drop THEN retries + 1 ELSE retries
  /\ errors' = IF net.err THEN errors + 1 ELSE errors
  /\ lastLog' =
       IF net.err THEN LogEntry("host", "Transaction failed", <<>>)
       ELSE IF net.drop
       THEN LogEntry("network", "Retry succeeded after packet loss", <<>>)
       ELSE rc.log
  /\ samples' = Append(samples, net.t)

\* one turn of simulateRun's loop
Trial ==
  /\ pc = "run"
  /\ i < scenario.n
  /\ \E rnd \in RandomFor(tokenPools, scenario.id) :
     \E rc \in {riskCheck(tokenPools, scenario.id, 1, now, rnd)} :
       /\ tokenPools' = rc.pools
       /\ IF rc.ok
          THEN \E net \in {Network(scenario, rand)} : Accepted(rc, net)
          ELSE Rejected(rc)
  /\ i' = i + 1
  /\ UNCHANGED <<runs, stored, now, pc, scenario, made, nRuns, nTicks>>

\* the run record the handler builds from simulateRun's result m
RunRecord(rid, sc, m, smp, at, k) ==
  [run_id |-> rid, started_at |-> at, scenario |-> sc,
   metrics |-> m, samples_ms |-> smp, seq |-> k]

\* the rest of the handler: the metrics, the record, the history, the save
RunFinish ==
  /\ pc = "run"
  /\ ~(i < scenario.n)
  /\ \E m \in {Metrics(samples, errors, retries, scenario.n)} :
     \E rid \in RunIds :
       runs' = SliceLast(Append(runs, RunRecord(rid, scenario, m, samples,
                                                now, made + 1)),
                         HistoryMax)
  /\ stored' = saveRuns(runs')
  /\ made' = made + 1
  /\ lastLog' = LogEntry("client", "Run stored", <<>>)
  /\ pc' = "idle"
  /\ scenario' = NoScenario
  /\ rand' = <<0, 0>>
  /\ samples' = <<>>
  /\ errors' = 0
  /\ retries' = 0
  /\ i' = 0
  /\ UNCHANGED <<tokenPools, now, nRuns, nTicks>>

Next ==
  \/ Tick
  \/ SaveScenarioClick
  \/ ClearLogsClick
  \/ ClearRunsClick
  \/ RunClick
  \/ Trial
  \/ RunFinish

Spec == Init /\ [][Next]_vars

(***************************************************************************)
(* riskCheck by itself: called in any order, with any of RiskAmounts, for  *)
(* the scenario of FormA, while the clock moves.  simulateRun passes the   *)
(* amount 1 only; the function takes any.                                  *)
(***************************************************************************)
RiskAmounts == {1, 50, 101}
RiskId == getScenario(FormA).id

RiskCheckCall ==
  /\ pc = "idle"
  /\ \E amount \in RiskAmounts :
     \E rnd \in RandomFor(tokenPools, RiskId) :
     \E rc \in {riskCheck(tokenPools, RiskId, amount, now, rnd)} :
       /\ tokenPools' = rc.pools
       /\ lastLog' = rc.log
  /\ UNCHANGED <<runs, stored, now, pc, locals, made, nRuns, nTicks>>

RiskNext ==
  \/ RiskCheckCall
  \/ Tick

RiskSpec == Init /\ [][RiskNext]_vars

(***************************************************************************)
(* percentile by itself: applied at 50, 95 and 99 to sample lists of every *)
(* length up to MaxSamples, in rising, falling, scrambled and level order; *)
(* the result is logged as simulateRun logs its metrics.                   *)
(***************************************************************************)
MaxSamples == 25

SampleValue(kind, len, k) ==
  IF kind = 1 THEN FxInt(k)
  ELSE IF kind = 2 THEN FxInt((len - k) + 1)
  ELSE IF kind = 3 THEN <<(k * 7) % 5, (k % 2) * 32768, 0>>
  ELSE <<3, 0, 1>>

SampleLists ==
  {[k \in 1..len |-> SampleValue(kind, len, k)] :
     kind \in 1..4, len \in 0..MaxSamples}

Percentiles(arr) ==
  [p50_ms |-> percentile(arr, 50),
   p95_ms |-> percentile(arr, 95),
   p99_ms |-> percentile(arr, 99)]

StatsInit ==
  /\ samples \in SampleLists
  /\ stored = NoItem
  /\ runs = <<>>
  /\ made = 0
  /\ tokenPools = NoPools
  /\ lastLog = NoLog
  /\ now = 0
  /\ pc = "run"
  /\ scenario = NoScenario
  /\ rand = <<0, 0>>
  /\ errors = 0
  /\ retries = 0
  /\ i = 0
  /\ nRuns = 0
  /\ nTicks = 0

PercentileCall ==
  /\ pc = "run"
  /\ lastLog' = LogEntry("risk", "Metrics computed", Percentiles(samples))
  /\ pc' = "idle"
  /\ UNCHANGED <<tokenPools, runs, stored, now, scenario, rand, samples,
                 errors, retries, i, made, nRuns, nTicks>>

StatsNext == PercentileCall

StatsSpec == StatsInit /\ [][StatsNext]_vars

(***************************************************************************)
(* getScenario by itself: called once on a form whose fields hold any of   *)
(* the texts below (empty, below range, in range, at the bound, above      *)
(* range), the result kept as the handler's sc.                            *)
(***************************************************************************)
LatencyTexts == {<<>>, Dec(150), Dec(LatencyMax), Dec(9000), Dec(0 - 5)}
JitterTexts == {Dec(30), Dec(2500)}
LossTexts == {Dec(5), Dec(45)}
BwTexts == {<<>>, Dec(512)}
NTexts == {<<>>, Dec(3), Dec(101)}
SeedTexts == {Dec(0), Dec(42)}

NumberForms ==
  {[netType |-> "public_internet", latency |-> la, jitter |-> ji,
    loss |-> lo, bw |-> bw, mix |-> "tap_to_pay", n |-> n, seed |-> se] :
     la \in LatencyTexts, ji \in JitterTexts, lo \in LossTexts,
     bw \in BwTexts, n \in NTexts, se \in SeedTexts}

SelectForms ==
  {[FormB EXCEPT !.netType = nt, !.mix = mx] :
     nt \in {"private_apn", "public_internet"},
     mx \in {"tap_to_pay", "provisioning", "other"}}

RawForms == NumberForms \cup SelectForms

\* saveScenarioBtn, the form holding raw
GetScenarioCall ==
  /\ pc = "idle"
  /\ scenario = NoScenario
  /\ \E raw \in RawForms : scenario' = getScenario(raw)
  /\ lastLog' = LogEntry("client", "Scenario saved (in UI)", <<>>)
  /\ UNCHANGED <<tokenPools, runs, stored, now, pc, rand, samples, errors,
                 retries, i, made, nRuns, nTicks>>

NormNext == GetScenarioCall

NormSpec == Init /\ [][NormNext]_vars

(***************************************************************************)
(* The token pool under the runs of the engine.                            *)
(***************************************************************************)
\* the last entry logged by a riskCheck that returns false
RejectLogs ==
  {LogEntry("risk", "Token expired or exhausted", <<>>),
   LogEntry("risk", "Cumulative limit exceeded", <<>>)}

UsedSet(pool) == {k \in 1..Len(pool.tokens) : pool.tokens[k].used}

\* the pool of id before a step: the one there is, or the one the step's
\* riskCheck creates, as initTokenPool makes it
Unspent(pool) ==
  [pool EXCEPT !.cumulative = 0,
               !.tokens = [k \in 1..Len(pool.tokens) |->
                             [pool.tokens[k] EXCEPT !.used = FALSE]]]
PoolBefore(id) ==
  IF id \in DOMAIN tokenPools THEN tokenPools[id] ELSE Unspent(tokenPools'[id])

WithinLimit == \A id \in DOMAIN tokenPools :
                 tokenPools[id].cumulative <= tokenPools[id].limit

\* new marks exactly one token more than old, one that old has not marked
MarksOneFresh(old, new) ==
  \E k \in (1..Len(old.tokens)) \ UsedSet(old) : UsedSet(new) = UsedSet(old) \cup {k}

ChecksSpendFresh ==
  \A id \in DOMAIN tokenPools' :
    (tokenPools'[id].cumulative # PoolBefore(id).cumulative)
      => MarksOneFresh(PoolBefore(id), tokenPools'[id])

\* C1: in every reachable state every pool has cumulative <= limit, and
\* every check that adds to a pool's cumulative marks exactly one token, one
\* that was not marked used before: no used token is selected again.
C1_PoolInvariant == []WithinLimit /\ [][ChecksSpendFresh]_vars

\* a pool is spent up to its limit and a later check has been made
C1_Witness ==
  /\ pc = "run" /\ i = 101
  /\ scenario.id \in DOMAIN tokenPools
  /\ tokenPools[scenario.id].cumulative = tokenPools[scenario.id].limit
  /\ Cardinality(UsedSet(tokenPools[scenario.id])) = TokenCount

(***************************************************************************)
(* 101 checks of amount 1 against a fresh pool: the session's first run,   *)
(* of the form whose n is 101.  Its pool is created by its first check.    *)
(***************************************************************************)
FirstRunOf101 == pc = "run" /\ nRuns = 1 /\ scenario.n = 101

\* the cumulative of the running scenario's pool, 0 before it exists
CumulativeNow ==
  IF scenario.id \in DOMAIN tokenPools
  THEN tokenPools[scenario.id].cumulative ELSE 0

\* the first 100 checks were accepted: each added its amount 1
AcceptedSoFar == CumulativeNow = Min(i, 100)

\* C2 as stated: the first 100 checks are accepted and the 101st is
\* rejected through the cumulative-limit outcome.
C2_RejectedByLimit ==
  FirstRunOf101 =>
    /\ AcceptedSoFar
    /\ i = 101 => lastLog = LogEntry("risk", "Cumulative limit exceeded", <<>>)

\* C2 amended: the first 100 checks are accepted and the 101st is rejected
\* through the token-exhausted/expired outcome, the pool unchanged at
\* cumulative 100.
C2_RejectedByExhaustion ==
  FirstRunOf101 =>
    /\ AcceptedSoFar
    /\ i = 101 => /\ lastLog = LogEntry("risk", "Token expired or exhausted", <<>>)
                  /\ errors >= 1
                  /\ samples[101] = FxInt(0)

\* the 101st check of the first run has been made
C2_Witness == FirstRunOf101 /\ i = 101 /\ CumulativeNow = 100

(***************************************************************************)
(* Two runs of one scenario in one session.                                *)
(***************************************************************************)
\* C3: two runs of the same scenario (all fields, the seed included) give
\* the same samples and the same metrics (avg, p50, p95, p99, error_rate,
\* retry_rate).  Stated of the records of the history, and only while the
\* clock has not moved, so that no token's expiry plays a part.
C3_SameScenarioSameResult ==
  nTicks = 0 =>
    \A j \in 1..Len(runs) : \A k \in 1..Len(runs) :
      runs[j].scenario = runs[k].scenario
        => /\ runs[j].samples_ms = runs[k].samples_ms
           /\ runs[j].metrics = runs[k].metrics

(***************************************************************************)
(* The result of a run.                                                    *)
(***************************************************************************)
SamplesPerTrial ==
  /\ pc = "run" => (Len(samples) = i /\ i <= scenario.n)
  /\ \A k \in 1..Len(runs) : Len(runs[k].samples_ms) = runs[k].scenario.n

\* a step of the running handler is a turn of the loop, which counts one
\* trial and appends one sample while i < scenario.n, or the end of the
\* handler, at i = scenario.n, which stores the samples as they are
LoopAdvances ==
  pc = "run" =>
    \/ /\ pc' = "run" /\ scenario' = scenario
       /\ i < scenario.n /\ i' = i + 1
       /\ Len(samples') = Len(samples) + 1
       /\ SubSeq(samples', 1, Len(samples)) = samples
    \/ /\ pc' = "idle" /\ i = scenario.n
       /\ runs'[Len(runs')].samples_ms = samples
       /\ runs'[Len(runs')].scenario = scenario

\* C4: simulateRun ends having appended exactly one sample per trial,
\* accepted or rejected: every turn of the loop counts one trial and appends
\* one sample, after i trials there are i samples, the loop ends at
\* i = scenario.n (scenario.n - i falls with every turn), and every record
\* holds scenario.n samples.
C4_OneSamplePerTrial == []SamplesPerTrial /\ [][LoopAdvances]_vars

\* a run with accepted and rejected trials is in the history
C4_Witness ==
  \E k \in 1..Len(runs) :
    /\ runs[k].scenario.n = 101
    /\ runs[k].samples_ms[1] # FxInt(0)
    /\ runs[k].samples_ms[101] = FxInt(0)

\* a rate k / n, kept as [num, den], lies in [0, 1]
InUnit(r) == 0 <= r.num /\ r.num <= r.den /\ r.den > 0

CountersBounded ==
  /\ pc = "run" => /\ 0 <= errors /\ errors <= i
                   /\ 0 <= retries /\ retries <= i
  /\ \A k \in 1..Len(runs) : /\ InUnit(runs[k].metrics.error_rate)
                             /\ InUnit(runs[k].metrics.retry_rate)

CountOncePerTrial ==
  (pc = "run" /\ pc' = "run")
    => /\ errors' \in {errors, errors + 1}
       /\ retries' \in {retries, retries + 1}

\* C5: a trial adds at most one to the error count and at most one to the
\* retry count, so after i trials 0 <= errors <= i and 0 <= retries <= i,
\* and every record's error_rate and retry_rate lie in [0, 1].
C5_CountersAndRates == []CountersBounded /\ [][CountOncePerTrial]_vars

\* the history holds a run whose every trial was rejected (error_rate 1) and
\* a run with retries and errors of the network stage
C5_Witness ==
  \E j \in 1..Len(runs) : \E k \in 1..Len(runs) :
    /\ runs[j].scenario.n = 101
    /\ runs[j].metrics.error_rate = [num |-> 1, den |-> 1]
    /\ runs[k].metrics.retry_rate.num > 0
    /\ runs[k].metrics.error_rate.num > 0

(***************************************************************************)
(* riskCheck's effect on the pool.                                         *)
(***************************************************************************)

\* a step that is a riskCheck returning false: it logs one of the two
\* rejections last (a step that moves the clock is no call)
RejectedCall == lastLog' \in RejectLogs /\ now' = now

PoolsKept ==
  \A id \in DOMAIN tokenPools' : tokenPools'[id] = PoolBefore(id)

\* C6: a riskCheck that returns false, for want of an unused unexpired token
\* or because cumulative + amount > limit, leaves the pool as it was (as
\* created, if the call created it): no used flag and no cumulative changes.
C6_RejectionKeepsPool == [][RejectedCall => PoolsKept]_vars

\* a check was rejected for the limit while unused tokens were left
C6_Witness ==
  /\ lastLog = LogEntry("risk", "Cumulative limit exceeded", <<>>)
  /\ RiskId \in DOMAIN tokenPools
  /\ tokenPools[RiskId].cumulative = 100
  /\ Cardinality(UsedSet(tokenPools[RiskId])) = 2

\* what a step may do to pool old, leaving it as new
TokensKept(old, new) ==
  /\ Len(new.tokens) = Len(old.tokens)
  /\ \A k \in 1..Len(old.tokens) :
       /\ new.tokens[k].id = old.tokens[k].id
       /\ new.tokens[k].expiresAt = old.tokens[k].expiresAt
       /\ old.tokens[k].used => new.tokens[k].used

PoolGrows ==
  \A id \in DOMAIN tokenPools :
    /\ id \in DOMAIN tokenPools'
    /\ tokenPools'[id].cumulative >= tokenPools[id].cumulative
    /\ TokensKept(tokenPools[id], tokenPools'[id])

PoolShape ==
  \A id \in DOMAIN tokenPools :
    /\ Len(tokenPools[id].tokens) = TokenCount
    /\ \A k \in 1..TokenCount : tokenPools[id].tokens[k].id = TokenId(k)

\* C10: across every step of any sequence of riskCheck calls on a pool, its
\* cumulative never decreases, a used flag never goes from true to false,
\* and the tokens keep their ids, their expiry times, their order and their
\* number, 100.
C10_PoolMonotone == []PoolShape /\ [][PoolGrows]_vars

\* calls of both amounts were accepted, the clock has moved, and a part of
\* the tokens is used
C10_Witness ==
  /\ RiskId \in DOMAIN tokenPools
  /\ nTicks = 1
  /\ tokenPools[RiskId].cumulative = 100
  /\ Cardinality(UsedSet(tokenPools[RiskId])) = 51
  /\ lastLog = LogEntry("risk", "Token expired or exhausted", <<>>)

(***************************************************************************)
(* A rejected trial.                                                       *)
(***************************************************************************)
\* a turn of the loop whose riskCheck returned false: the rejection is the
\* last entry logged (an accepted turn logs "Token consumed" or later ones)
RejectedTurn == pc = "run" /\ pc' = "run" /\ lastLog' \in RejectLogs

RejectedTurnEffect ==
  /\ samples' = Append(samples, FxInt(0))
  /\ errors' = errors + 1
  /\ retries' = retries
  /\ rand' = rand

\* C7: a trial whose riskCheck is rejected records the sample 0, adds
\* exactly one to the error count, leaves the retry count as it is and makes
\* no draw: the generator's state is the same after it as before, so the
\* next accepted trial draws what it would have drawn without it.
C7_RejectedTrial == [][RejectedTurn => RejectedTurnEffect]_vars

\* a trial was rejected in a run whose earlier trials had made draws
C7_Witness ==
  /\ pc = "run" /\ i > 1
  /\ lastLog \in RejectLogs
  /\ samples[i] = FxInt(0)
  /\ samples[1] # FxInt(0)
  /\ rand # ToWord(scenario.seed)

(***************************************************************************)
(* The life of a pool.                                                     *)
(***************************************************************************)
\* a step outside simulateRun's loop (a click on Run up to the loop, the end
\* of the Run handler, Save scenario, Clear logs, Clear runs, the clock)
\* leaves the pools as they are
OutsideLoopKeepsPools ==
  (pc = "idle" \/ pc' = "idle") => tokenPools' = tokenPools

\* a turn of the loop creates at most the pool of the running scenario,
\* and only if there is none; the pools there are stay, none replaced or
\* reset
LoopKeepsPools ==
  (pc = "run" /\ pc' = "run")
    => /\ DOMAIN tokenPools' \subseteq DOMAIN tokenPools \cup {scenario.id}
       /\ PoolGrows

\* C8: a pool is created only by the first riskCheck for its scenario id,
\* and nothing replaces or resets it afterwards: not a further run with the
\* same id, not Save scenario, Clear logs or Clear runs.  A run finds the
\* used flags and the cumulative as the previous run with its id left them.
C8_PoolPersists == [][OutsideLoopKeepsPools /\ LoopKeepsPools]_vars

\* a second run starts, after the history was cleared, on a pool that an
\* earlier run has spent from
C8_Witness ==
  /\ pc = "run" /\ i = 0 /\ nRuns = 2
  /\ made = 0 /\ runs = <<>>
  /\ scenario.id \in DOMAIN tokenPools
  /\ tokenPools[scenario.id].cumulative > 0

(***************************************************************************)
(* The history.  seq numbers the records in the order of their creation    *)
(* since the history was last cleared (the loaded ones first); made is the *)
(* number of the one created last.                                         *)
(***************************************************************************)
HistoryBounded ==
  /\ Len(runs) <= HistoryMax
  /\ Len(loadRuns(stored)) <= HistoryMax
  /\ loadRuns(stored) = runs

\* the history is the last Len(runs) records created, oldest first
HistoryMostRecent ==
  /\ Len(runs) = Min(made, HistoryMax)
  /\ \A k \in 1..Len(runs) : runs[k].seq = made - Len(runs) + k

\* a record of the history that was there before the step is one of the
\* records of before, field for field
RecordsKept ==
  \A k \in 1..Len(runs') :
    runs'[k].seq <= made => \E j \in 1..Len(runs) : runs[j] = runs'[k]

\* C9: after any sequence of Run clicks and Clear runs, from a loaded
\* history of at most 20 records, state.runs and the stored history hold at
\* most 20 records, the most recently created ones since the last clear, in
\* the order of their creation, and no later run modifies a record.
C9_History == [](HistoryBounded /\ HistoryMostRecent) /\ [][RecordsKept]_vars

\* a 21st record was created and the oldest one dropped
C9_Witness ==
  /\ made = HistoryMax + 1
  /\ Len(runs) = HistoryMax
  /\ runs[1].seq = 2
  /\ runs[HistoryMax].scenario.n = 101
  /\ loadRuns(stored) = runs

(***************************************************************************)
(* The percentiles of a sample list.                                       *)
(***************************************************************************)
\* the percentiles that the last call of percentile logged
Logged == lastLog.token

PercentilesLogged == lastLog.msg = "Metrics computed"

\* a does not exceed b
FxAtMost(a, b) == ~FxLess(b, a)

\* C11: for every non-empty sample list the percentile at 50 is at most the
\* one at 95, which is at most the one at 99; for the empty list the three
\* are 0
C11_PercentilesOrdered ==
  PercentilesLogged =>
    IF samples = <<>>
    THEN /\ Logged.p50_ms = FxInt(0)
         /\ Logged.p95_ms = FxInt(0)
         /\ Logged.p99_ms = FxInt(0)
    ELSE /\ FxAtMost(Logged.p50_ms, Logged.p95_ms)
         /\ FxAtMost(Logged.p95_ms, Logged.p99_ms)

\* a list that is not in rising order, whose three percentiles differ
C11_Witness ==
  /\ PercentilesLogged
  /\ \E k \in 1..(Len(samples) - 1) : FxLess(samples[k + 1], samples[k])
  /\ FxLess(Logged.p50_ms, Logged.p95_ms)
  /\ FxLess(Logged.p95_ms, Logged.p99_ms)

(***************************************************************************)
(* The normalization of a scenario.                                        *)
(***************************************************************************)
Normalized == scenario # NoScenario

\* the fields of a scenario, without its id
FieldsOf(sc) ==
  [netType |-> sc.netType, latency |-> sc.latency, jitter |-> sc.jitter,
   loss |-> sc.loss, bw |-> sc.bw, mix |-> sc.mix, n |-> sc.n,
   seed |-> sc.seed]

\* the form that holds the fields of a scenario
FormOf(sc) ==
  [netType |-> sc.netType, latency |-> Dec(sc.latency),
   jitter |-> Dec(sc.jitter), loss |-> Dec(sc.loss), bw |-> Dec(sc.bw),
   mix |-> sc.mix, n |-> Dec(sc.n), seed |-> Dec(sc.seed)]

\* C12: normalization is idempotent: the fields of a normalized scenario,
\* put through getScenario again, give the same fields and the same id
C12_NormalizeIdempotent ==
  Normalized => getScenario(FormOf(scenario)) = scenario

\* a scenario whose latency, n and seed were out of range in the form
C12_Witness ==
  /\ Normalized
  /\ scenario.latency = LatencyMax
  /\ scenario.n = NMin
  /\ scenario.seed = 1
  /\ \E raw \in RawForms :
       /\ getScenario(raw) = scenario
       /\ Parsed(raw).latency > LatencyMax
       /\ Parsed(raw).n < NMin
       /\ Parsed(raw).seed < 1
       /\ getScenario(FormOf(getScenario(raw))) = scenario

\* C13: the id is a function of the clamped fields: every form whose
\* clamped fields equal those of the scenario gets the scenario's id
C13_IdFromClampedFields ==
  Normalized =>
    \A raw \in RawForms :
      Clamped(raw) = FieldsOf(scenario) => getScenario(raw).id = scenario.id

\* the latencies 5000 and 9000 give the same fields and the same id
C13_Witness ==
  /\ Normalized
  /\ \E r1 \in RawForms :
       /\ r1.latency = Dec(LatencyMax)
       /\ Clamped(r1) = FieldsOf(scenario)
       /\ getScenario(r1).id = scenario.id
       /\ [r1 EXCEPT !.latency = Dec(9000)] \in RawForms
       /\ Clamped([r1 EXCEPT !.latency = Dec(9000)]) = FieldsOf(scenario)
       /\ getScenario([r1 EXCEPT !.latency = Dec(9000)]).id = scenario.id

(***************************************************************************)
(* The token an accepted check consumes.                                   *)
(***************************************************************************)
\* token k of pool is unused and expires later than the current time
Live(pool, k) == ~pool.tokens[k].used /\ pool.tokens[k].expiresAt > now

LiveSet(pool) == {k \in 1..Len(pool.tokens) : Live(pool, k)}

\* new is old with token k marked used and one of the amounts added
Spends(old, new, k) ==
  /\ new.tokens = [old.tokens EXCEPT ![k].used = TRUE]
  /\ (new.cumulative - old.cumulative) \in RiskAmounts
  /\ new.limit = old.limit

\* a step that is a call of riskCheck: the clock stands still
CallStep == now' = now

\* an accepted call marks the live token of lowest index, and only it
AcceptedMarksLowestLive ==
  (CallStep /\ lastLog'.msg = "Token consumed") =>
    /\ LiveSet(PoolBefore(RiskId)) # {}
    /\ \E k \in LiveSet(PoolBefore(RiskId)) :
         /\ \A j \in LiveSet(PoolBefore(RiskId)) : k <= j
         /\ Spends(PoolBefore(RiskId), tokenPools'[RiskId], k)
         /\ lastLog'.token = TokenId(k)

\* no step marks a token whose expiry time has passed
ExpiredNeverMarked ==
  \A id \in DOMAIN tokenPools' :
    \A k \in UsedSet(tokenPools'[id]) \ UsedSet(PoolBefore(id)) :
      PoolBefore(id).tokens[k].expiresAt > now

\* a call that finds no live token is rejected and marks nothing
NoLiveRejected ==
  (CallStep /\ LiveSet(PoolBefore(RiskId)) = {}) =>
    /\ lastLog' = LogEntry("risk", "Token expired or exhausted", <<>>)
    /\ tokenPools'[RiskId] = PoolBefore(RiskId)

\* C14: every accepted riskCheck marks exactly one token, the unused and
\* unexpired one of lowest index, and adds its amount to cumulative; a
\* token whose expiry time has passed is never marked; a check made when
\* every unused token has expired is rejected
C14_ConsumesLowestLive ==
  [][AcceptedMarksLowestLive /\ ExpiredNeverMarked /\ NoLiveRejected]_vars

\* an accepted check has passed over an unused token that had expired
C14_Witness ==
  /\ RiskId \in DOMAIN tokenPools
  /\ lastLog.msg = "Token consumed"
  /\ \E k \in UsedSet(tokenPools[RiskId]) :
       /\ lastLog.token = TokenId(k)
       /\ \E j \in 1..(k - 1) :
            /\ ~tokenPools[RiskId].tokens[j].used
            /\ tokenPools[RiskId].tokens[j].expiresAt <= now

(***************************************************************************)
(* The draws of a trial, counted from the generator's state before it.     *)
(***************************************************************************)
\* the generator's state at its k-th draw from the state s
RECURSIVE DrawState(_, _)
DrawState(s, k) == IF k = 0 THEN s ELSE RandStep(DrawState(s, k - 1))

\* the value of the k-th draw of a trial that starts in this state
DrawAt(k) == RandOut(DrawState(rand, k))

DropDrawn == DrawBelow(DrawAt(1), scenario.loss, 100)

\* the place of the stress draw: after drop, jitter, second-attempt failure
\* and retry jitter, or after drop, jitter and baseline fault
StressAt == IF DropDrawn THEN 5 ELSE 4

StressDrawn ==
  DrawBelow(DrawAt(StressAt), StressP(scenario), StressQ(scenario))

DrawsOfTrial == IF StressDrawn THEN StressAt + 1 ELSE StressAt

\* the sample of the trial, from the draws at their places
WithRetry(t) == IF DropDrawn THEN FxAdd(t, Penalty(scenario, DrawAt(4))) ELSE t
WithExtra(t) ==
  IF StressDrawn THEN FxAdd(t, Extra(DrawAt(StressAt + 1))) ELSE t
NotBelowZero(t) == IF t[1] < 0 THEN FxInt(0) ELSE t
SampleOfTrial ==
  NotBelowZero(WithExtra(WithRetry(FirstAttempt(scenario, DrawAt(2)))))

\* a turn of the loop
Turn == pc = "run" /\ pc' = "run"

\* a turn of the loop whose check was accepted: the pool's cumulative grew
AcceptedTurn ==
  /\ Turn
  /\ tokenPools'[scenario.id].cumulative = CumulativeNow + 1

AcceptedTurnDraws ==
  AcceptedTurn =>
    /\ DrawsOfTrial \in (IF DropDrawn THEN {5, 6} ELSE {4, 5})
    /\ rand' = DrawState(rand, DrawsOfTrial)
    /\ samples' = Append(samples, SampleOfTrial)

NoDrawElsewhere ==
  /\ (Turn /\ ~AcceptedTurn) => rand' = rand
  /\ (pc = "idle" /\ pc' = "idle") => rand' = rand
  /\ (pc = "idle" /\ pc' = "run") => rand' = ToWord(scenario'.seed)

\* C15: the draws of a run come from the one generator made from the seed;
\* an accepted trial draws drop, jitter, then second-attempt failure and
\* retry jitter (drop) or baseline fault (no drop), then stress, then the
\* extra delay only if stress fired: 4 or 5 draws without drop, 5 or 6
\* with it; no other step draws
C15_DrawOrder == [][AcceptedTurnDraws /\ NoDrawElsewhere]_vars

\* an accepted trial with a drop has been made after one without
C15_Witness ==
  /\ pc = "run"
  /\ retries >= 1
  /\ retries < i - errors
  /\ lastLog.msg = "Retry succeeded after packet loss"
  /\ rand # ToWord(scenario.seed)

(***************************************************************************)
(* The counters of a run.                                                  *)
(***************************************************************************)
\* the error flag of the trial that starts in this state: the
\* second-attempt failure draw of a dropped trial, the baseline fault draw
\* of another
ErrorFlag ==
  IF DropDrawn THEN DrawBelow(DrawAt(3), 12, 100)
  ELSE DrawBelow(DrawAt(3), 8, 1000)

One(b) == IF b THEN 1 ELSE 0

\* the counters start at 0
RunStartsAtZero ==
  (pc = "idle" /\ pc' = "run") => (errors' = 0 /\ retries' = 0)

\* an accepted trial counts its drop and its error flag
AcceptedTurnCounts ==
  AcceptedTurn =>
    /\ retries' = retries + One(DropDrawn)
    /\ errors' = errors + One(ErrorFlag)

\* a rejected trial counts one error and no retry
RejectedTurnCounts ==
  (Turn /\ ~AcceptedTurn) => (errors' = errors + 1 /\ retries' = retries)

\* the run's metrics are made of the counters as they are after the last
\* trial
RunEndsWithCounts ==
  (pc = "run" /\ pc' = "idle") =>
    /\ i = scenario.n
    /\ runs'[Len(runs')].metrics.error_rate = Rate(errors, scenario.n)
    /\ runs'[Len(runs')].metrics.retry_rate = Rate(retries, scenario.n)

\* C16: at the end of a run retries is the number of accepted trials whose
\* drop draw fired and errors the number of rejected trials plus that of
\* accepted trials whose error flag is set: the counters start at 0, each
\* trial adds its share, and the metrics are made of them after trial n
C16_CountersCount ==
  [][/\ RunStartsAtZero
     /\ AcceptedTurnCounts
     /\ RejectedTurnCounts
     /\ RunEndsWithCounts]_vars

\* a run of 101 trials has ended with 5 retries and 2 errors, one of a
\* transaction that failed and one of the rejected trial 101
C16_Witness ==
  /\ pc = "idle"
  /\ runs # <<>>
  /\ runs[Len(runs)].scenario.n = 101
  /\ runs[Len(runs)].metrics.retry_rate = Rate(5, 101)
  /\ runs[Len(runs)].metrics.error_rate = Rate(2, 101)
  /\ runs[Len(runs)].samples_ms[101] = FxInt(0)
  /\ \E k \in 1..100 : runs[Len(runs)].samples_ms[k] # FxInt(0)

(***************************************************************************)
(* The cumulative amount and the used tokens under simulateRun.            *)
(***************************************************************************)
CumulativeCountsUsed ==
  \A id \in DOMAIN tokenPools :
    tokenPools[id].cumulative = Cardinality(UsedSet(tokenPools[id]))

LimitBranchNotTaken ==
  lastLog # LogEntry("risk", "Cumulative limit exceeded", <<>>)

\* C17: in every pool that simulateRun reaches cumulative is the number of
\* tokens marked used, and no check is rejected through the cumulative
\* limit: the last entry logged is never that of the limit branch
C17_CumulativeIsUsedCount == CumulativeCountsUsed /\ LimitBranchNotTaken

\* a trial is rejected by a pool that is spent below its limit, its unused
\* tokens expired
C17_Witness ==
  /\ pc = "run"
  /\ lastLog = LogEntry("risk", "Token expired or exhausted", <<>>)
  /\ scenario.id \in DOMAIN tokenPools
  /\ CumulativeNow = Cardinality(UsedSet(tokenPools[scenario.id]))
  /\ CumulativeNow > 0
  /\ CumulativeNow < PoolLimit

(***************************************************************************)
(* The budget of a scenario id over the runs made since the page was       *)
(* loaded, which is the life of state.tokenPools.  An accepted trial of    *)
(* the scenarios run here has a sample above 0 (its processing time and    *)
(* latency exceed its jitter), a rejected one the sample 0.                *)
(***************************************************************************)
AcceptedIn(smp) == Cardinality({k \in 1..Len(smp) : smp[k] # FxInt(0)})

RejectedIn(smp) == Cardinality({k \in 1..Len(smp) : smp[k] = FxInt(0)})

\* the accepted trials of the records before place p that have the id
RECURSIVE AcceptedBefore(_, _)
AcceptedBefore(id, p) ==
  IF p <= 1 THEN 0
  ELSE AcceptedBefore(id, p - 1)
       + (IF runs[p - 1].scenario.id = id
          THEN AcceptedIn(runs[p - 1].samples_ms) ELSE 0)

\* those of all the records and of the run under way
AcceptedEver(id) ==
  AcceptedBefore(id, Len(runs) + 1)
  + (IF pc = "run" /\ scenario.id = id THEN AcceptedIn(samples) ELSE 0)

BudgetKept ==
  \A id \in DOMAIN tokenPools :
    /\ AcceptedEver(id) <= tokenPools[id].cumulative
    /\ tokenPools[id].cumulative <= TokenCount

\* a run under way whose id had 100 accepted trials on record
SpentRunUnderWay ==
  (pc = "run" /\ AcceptedBefore(scenario.id, Len(runs) + 1) = TokenCount) =>
    /\ samples = Zeros(i)
    /\ errors = i
    /\ retries = 0

AllRejected(r) ==
  /\ r.samples_ms = Zeros(r.scenario.n)
  /\ r.metrics.retry_rate = Rate(0, r.scenario.n)
  /\ r.metrics.error_rate = Rate(r.scenario.n, r.scenario.n)
  /\ r.metrics.error_rate.num = r.metrics.error_rate.den

SpentRunsRejected ==
  \A p \in 1..Len(runs) :
    AcceptedBefore(runs[p].scenario.id, p) = TokenCount => AllRejected(runs[p])

LongRunsRejected ==
  \A p \in 1..Len(runs) :
    runs[p].scenario.n > TokenCount =>
      RejectedIn(runs[p].samples_ms) >= runs[p].scenario.n - TokenCount

\* C18: over the runs of one scenario id at most 100 trials are accepted;
\* a run made after 100 were accepted has every trial rejected: its
\* samples are all 0, its retry_rate 0 and its error_rate 1; a run with
\* n > 100 has at least n - 100 rejected trials
C18_SharedBudget ==
  /\ BudgetKept
  /\ SpentRunUnderWay
  /\ SpentRunsRejected
  /\ LongRunsRejected

\* two runs of 101 trials with one id are on record: the first with 100
\* accepted trials and one rejected, the second with none accepted
C18_Witness ==
  /\ Len(runs) >= 2
  /\ runs[Len(runs)].scenario.id = runs[Len(runs) - 1].scenario.id
  /\ runs[Len(runs)].scenario.n = 101
  /\ AcceptedIn(runs[Len(runs) - 1].samples_ms) = TokenCount
  /\ RejectedIn(runs[Len(runs) - 1].samples_ms) = 1
  /\ AcceptedBefore(runs[Len(runs)].scenario.id, Len(runs)) = TokenCount
  /\ AllRejected(runs[Len(runs)])

=============================================================================
